---- MODULE Spec2Model ----
(***************************************************************************)
(* Rental-Buddy: the comp selection pipeline (RentalService) and the       *)
(* location resolver (GeocodingService), and the request schema             *)
(* (CompsRequest).                                                         *)
(*                                                                         *)
(* Units.  Prices are whole dollars.  Bathrooms are counted in halves      *)
(* (1.5 baths = 3).  Latitudes and longitudes are hundredths of a degree   *)
(* (30.27 = 3027).  Distances are tenths of a mile (1.4 mi = 14), the      *)
(* resolution haversine_distance rounds to.                                *)
(*                                                                         *)
(* JSON values are records [t, n, s]: t is the JSON type, n the number of  *)
(* a "num", s the characters of a "str".  A key that is missing from a     *)
(* dict and a key whose value is null both read as None through dict.get,  *)
(* so both are the value None.  A string is a sequence of one-character    *)
(* strings.                                                                *)
(*                                                                         *)
(* The keyword arguments of CompsRequest use the same values, None for a   *)
(* keyword that is not given; there bathrooms and radius_miles are tenths  *)
(* (1.5 baths = 15, 5.0 miles = 50), so that a bathroom count that is not  *)
(* a multiple of 0.5 can be written.                                       *)
(***************************************************************************)
EXTENDS Integers, Sequences, FiniteSets, TLC

VARIABLES
    pc,          \* position of the get_rental_comps call: idle, awaiting, returned
    args,        \* arguments of the call in progress
    requests,    \* GET requests issued to the listing provider during the call
    outstanding, \* provider requests issued and not yet completed
    response,    \* what the provider answered (status and payload)
    result,      \* what get_rental_comps gave its caller
    gpc,         \* position of the geocode_address call: idle, awaiting, returned
    gaddress,    \* the address argument of the geocode call
    grequests,   \* GET requests issued to the geocoding service during the call
    gresponse,   \* what the geocoding service answered
    gresult,     \* what geocode_address gave its caller
    kwargs,      \* keyword arguments of the last CompsRequest(...) call
    made,        \* its outcome: none (no call yet), created, error
    request      \* the CompsRequest object, when one was created

vars == <<pc, args, requests, outstanding, response, result,
          gpc, gaddress, grequests, gresponse, gresult,
          kwargs, made, request>>
rentalVars == <<pc, args, requests, outstanding, response, result>>
geoVars == <<gpc, gaddress, grequests, gresponse, gresult>>
reqVars == <<kwargs, made, request>>

----------------------------------------------------------------------------
(* Bounds of the model *)

\* longest payload of well-formed listings, each sent once
MaxListings == 6
\* longest payload that mixes well-formed, invalid and malformed entries
MaxMixed == 3
\* longest address handed to geocode_address
MaxAddrLen == 3
\* largest bedrooms argument of CompsRequest
MaxBedrooms == 2
\* largest bathrooms argument of CompsRequest, in tenths
MaxBathTenths == 16

----------------------------------------------------------------------------
(* JSON values and the Python operations the services apply to them *)

None == [t |-> "null", n |-> 0, s |-> <<>>]
Num(k) == [t |-> "num", n |-> k, s |-> <<>>]
Str(cs) == [t |-> "str", n |-> 0, s |-> cs]

\* bool(v): None, 0 and "" are falsy
Truthy(v) ==
    CASE v.t = "null" -> FALSE
      [] v.t = "num" -> v.n # 0
      [] v.t = "str" -> v.s # <<>>

\* a or b
Or(a, b) == IF Truthy(a) THEN a ELSE b

Digits == <<"0", "1", "2", "3", "4", "5", "6", "7", "8", "9">>
IsDigit(c) == \E d \in DOMAIN Digits : Digits[d] = c
DigitValue(c) == (CHOOSE d \in DOMAIN Digits : Digits[d] = c) - 1

RECURSIVE ParseDigits(_)
ParseDigits(cs) ==
    IF cs = <<>> THEN 0
    ELSE 10 * ParseDigits(SubSeq(cs, 1, Len(cs) - 1)) + DigitValue(cs[Len(cs)])

\* int(v): a number converts, a string must be decimal digits (ValueError
\* otherwise), None is a TypeError
IntOf(v) ==
    CASE v.t = "num" -> [ok |-> TRUE, n |-> v.n]
      [] v.t = "str" ->
            IF v.s # <<>> /\ \A i \in DOMAIN v.s : IsDigit(v.s[i])
            THEN [ok |-> TRUE, n |-> ParseDigits(v.s)]
            ELSE [ok |-> FALSE, n |-> 0]
      [] v.t = "null" -> [ok |-> FALSE, n |-> 0]

\* v < k against a number k: only a number can be ordered against a number,
\* anything else is a TypeError
LessThan(v, k) ==
    IF v.t = "num" THEN [ok |-> TRUE, lt |-> v.n < k]
    ELSE [ok |-> FALSE, lt |-> FALSE]

LowerChar(c) ==
    CASE c = "A" -> "a"
      [] c = "B" -> "b"
      [] c = "C" -> "c"
      [] OTHER -> c

\* str.lower()
Lower(cs) == [i \in DOMAIN cs |-> LowerChar(cs[i])]

IsSpace(c) == c \in {" ", "\t"}

\* str.strip()
RECURSIVE Strip(_)
Strip(cs) ==
    IF cs = <<>> THEN <<>>
    ELSE IF IsSpace(cs[1]) THEN Strip(Tail(cs))
    ELSE IF IsSpace(cs[Len(cs)]) THEN Strip(SubSeq(cs, 1, Len(cs) - 1))
    ELSE cs

----------------------------------------------------------------------------
(* Distance Calculator *)

\* tenths of a mile per hundredth of a degree of arc, times 10^5
\* (mean Earth radius 3958.8 mi * pi / 180 = 69.0941 mi per degree)
ArcTenthsE5 == 690941

Abs(x) == IF x < 0 THEN -x ELSE x

\* Great-circle distance rounded to one decimal.  For two points on one
\* meridian the haversine central angle is the latitude difference, which
\* is the case the model's coordinates stay in.
haversine_distance(lat1, lon1, lat2, lon2) ==
    CASE lon1 = lon2 -> (ArcTenthsE5 * Abs(lat2 - lat1) + 50000) \div 100000

----------------------------------------------------------------------------
(* Listing Normalizer: RentalService._process_listing *)

\* what _process_listing leaves behind when it produces no comp
NoComp == [address |-> <<>>, price |-> 0, bedrooms |-> 0, bathrooms |-> 0,
           square_footage |-> None, distance_miles |-> 0]

Rejected == [tag |-> "none", comp |-> NoComp]
Raised == [tag |-> "raise", comp |-> NoComp]
Accepted(c) == [tag |-> "comp", comp |-> c]

\* faulty variant: a placeholder address when the listing has none
ListingAddress_Default(listing) ==
    Or(Or(listing.formattedAddress, listing.address), Str(<<"?">>))

\* address = listing.get("formattedAddress") or listing.get("address")
ListingAddress(listing) == Or(listing.formattedAddress, listing.address)

\* all([price, address, latitude, longitude])
HasCriticalData(price, address, latitude, longitude) ==
    Truthy(price) /\ Truthy(address) /\ Truthy(latitude) /\ Truthy(longitude)

\* bedrooms < target_bedrooms or bathrooms < target_bathrooms; "error" is the
\* TypeError of ordering None or a string against a number
BelowTarget(bedrooms, bathrooms, target_bedrooms, target_bathrooms) ==
    LET b == LessThan(bedrooms, target_bedrooms)
        a == LessThan(bathrooms, target_bathrooms)
    IN  IF ~b.ok THEN "error"
        ELSE IF b.lt THEN "yes"
        ELSE IF ~a.ok THEN "error"
        ELSE IF a.lt THEN "yes"
        ELSE "no"

\* distance = haversine_distance(subject_lat, subject_lng, latitude, longitude);
\* a coordinate that is not a number is a TypeError
ListingDistance(subject_lat, subject_lng, latitude, longitude) ==
    IF latitude.t = "num" /\ longitude.t = "num"
    THEN [ok |-> TRUE,
          n |-> haversine_distance(subject_lat, subject_lng, latitude.n, longitude.n)]
    ELSE [ok |-> FALSE, n |-> 0]

\* int(square_footage) if square_footage else None
SquareFootage(square_footage) ==
    IF Truthy(square_footage)
    THEN LET i == IntOf(square_footage)
         IN  [ok |-> i.ok, v |-> IF i.ok THEN Num(i.n) ELSE None]
    ELSE [ok |-> TRUE, v |-> None]

\* CompProperty(address=..., price=int(price), ...): any conversion or
\* validation failure is a ValueError or TypeError
MakeComp(address, price, bedrooms, bathrooms, square_footage, distance) ==
    LET p == IntOf(price)
        b == IntOf(bedrooms)
        a == IntOf(bathrooms)
        q == SquareFootage(square_footage)
    IN  IF address.t = "str" /\ p.ok /\ b.ok /\ a.ok /\ q.ok
        THEN Accepted([address |-> address.s, price |-> p.n, bedrooms |-> b.n,
                       bathrooms |-> a.n, square_footage |-> q.v,
                       distance_miles |-> distance])
        ELSE Rejected

\* The result is a comp, None ("none"), or an exception that is neither
\* ValueError, TypeError nor KeyError and so leaves the function ("raise"):
\* the AttributeError of calling .get on an entry that is not a dict.
_process_listing(listing, subject_lat, subject_lng, target_bedrooms, target_bathrooms) ==
    IF ~listing.isdict THEN Raised
    ELSE
    LET price == listing.price
        bedrooms == listing.bedrooms
        bathrooms == listing.bathrooms
        address == ListingAddress(listing)
        latitude == listing.latitude
        longitude == listing.longitude
        square_footage == listing.squareFootage
        distance == ListingDistance(subject_lat, subject_lng, latitude, longitude)
    IN  IF ~HasCriticalData(price, address, latitude, longitude) THEN Rejected
        ELSE IF BelowTarget(bedrooms, bathrooms, target_bedrooms, target_bathrooms) # "no"
        THEN Rejected
        ELSE IF ~distance.ok THEN Rejected
        ELSE MakeComp(address, price, bedrooms, bathrooms, square_footage, distance.n)

----------------------------------------------------------------------------
(* Comp Selector: the body of RentalService.get_rental_comps *)

\* settings.max_results
max_results == 5

\* faulty variant: the address compared as written
DedupKey_Exact(comp) == comp.address

\* comp.address.lower()
DedupKey(comp) == Lower(comp.address)

\* the loop over the listings: comps and seen_addresses after the entries
\* from position i on, or the exception one of them raised
RECURSIVE ProcessListings(_, _, _, _, _)
ProcessListings(listings, i, comps, seen_addresses, a) ==
    IF i > Len(listings)
    THEN [raised |-> FALSE, comps |-> comps, seen_addresses |-> seen_addresses]
    ELSE LET r == _process_listing(listings[i], a.latitude, a.longitude,
                                   a.bedrooms, a.bathrooms)
         IN  IF r.tag = "raise"
             THEN [raised |-> TRUE, comps |-> comps, seen_addresses |-> seen_addresses]
             ELSE IF r.tag = "comp" /\ DedupKey(r.comp) \notin seen_addresses
             THEN ProcessListings(listings, i + 1, Append(comps, r.comp),
                                  seen_addresses \cup {DedupKey(r.comp)}, a)
             ELSE ProcessListings(listings, i + 1, comps, seen_addresses, a)

\* x.square_footage or 0
SqftOrZero(x) == IF Truthy(x.square_footage) THEN x.square_footage.n ELSE 0

\* faulty variant: square footage ascending
SortKey_SqftAscending(x) == <<x.distance_miles, x.price, SqftOrZero(x)>>

\* key=lambda x: (x.distance_miles, x.price, -(x.square_footage or 0))
SortKey(x) == <<x.distance_miles, x.price, -SqftOrZero(x)>>

\* tuple comparison k1 < k2
KeyLess(k1, k2) ==
    \/ k1[1] < k2[1]
    \/ k1[1] = k2[1] /\ k1[2] < k2[2]
    \/ k1[1] = k2[1] /\ k1[2] = k2[2] /\ k1[3] < k2[3]

\* x placed behind every element whose key is not greater
RECURSIVE InsertByKey(_, _)
InsertByKey(x, sorted) ==
    IF sorted = <<>> THEN <<x>>
    ELSE IF KeyLess(SortKey(x), SortKey(sorted[1]))
    THEN <<x>> \o sorted
    ELSE <<sorted[1]>> \o InsertByKey(x, Tail(sorted))

\* comps.sort(key=...): list.sort is stable
RECURSIVE SortComps(_)
SortComps(comps) ==
    IF comps = <<>> THEN <<>>
    ELSE InsertByKey(comps[Len(comps)], SortComps(SubSeq(comps, 1, Len(comps) - 1)))

\* faulty variant: no truncation
Top_All(comps) == comps

\* comps[: settings.max_results]
Top(comps) ==
    SubSeq(comps, 1, IF Len(comps) < max_results THEN Len(comps) ELSE max_results)

----------------------------------------------------------------------------
(* The provider call of get_rental_comps and its exception handlers *)

NoPayload == [kind |-> "null", items |-> <<>>]

\* for listing in listings: a list yields its entries, a dict its keys,
\* anything else is not iterable (TypeError)
Iterable(listings) == listings.kind \in {"list", "dict"}

\* The try block.  exc is the class of the exception that ends it, or "none".
\*   timeout    client.get raises httpx.TimeoutException
\*   transport  client.get raises another transport exception
\*   status     raise_for_status raises httpx.HTTPStatusError from 400 on
\*   badjson    response.json() raises a ValueError
TryBlock(resp, a) ==
    CASE resp.kind = "timeout" -> [exc |-> "TimeoutException", comps |-> <<>>]
      [] resp.kind = "transport" -> [exc |-> "Exception", comps |-> <<>>]
      [] resp.kind = "status" /\ resp.status >= 400 ->
            [exc |-> "HTTPStatusError", comps |-> <<>>]
      [] resp.kind = "badjson" -> [exc |-> "Exception", comps |-> <<>>]
      [] OTHER ->
            LET listings == resp.payload
            IN  IF ~Iterable(listings) THEN [exc |-> "Exception", comps |-> <<>>]
                ELSE LET loop == ProcessListings(listings.items, 1, <<>>, {}, a)
                     IN  IF loop.raised THEN [exc |-> "Exception", comps |-> <<>>]
                         ELSE [exc |-> "none", comps |-> Top(SortComps(loop.comps))]

\* faulty variant: without the final except Exception clause
ExceptClauses_NoCatchAll(exc, status) ==
    CASE exc = "TimeoutException" -> [raised |-> FALSE, comps |-> <<>>]
      [] exc = "HTTPStatusError" -> [raised |-> FALSE, comps |-> <<>>]
      [] OTHER -> [raised |-> TRUE, comps |-> <<>>]

\* except httpx.TimeoutException / httpx.HTTPStatusError / Exception
ExceptClauses(exc, status) ==
    CASE exc = "TimeoutException" -> [raised |-> FALSE, comps |-> <<>>]
      [] exc = "HTTPStatusError" ->
            IF status = 429 THEN [raised |-> FALSE, comps |-> <<>>]
            ELSE [raised |-> FALSE, comps |-> <<>>]
      [] OTHER -> [raised |-> FALSE, comps |-> <<>>]

\* what the call returns (or raises) once the provider has answered
Outcome(resp, a) ==
    LET t == TryBlock(resp, a)
    IN  IF t.exc = "none" THEN [raised |-> FALSE, comps |-> t.comps]
        ELSE ExceptClauses(t.exc, resp.status)

----------------------------------------------------------------------------
(* Inputs *)

RECURSIVE SeqsUpTo(_, _)
SeqsUpTo(S, n) ==
    IF n = 0 THEN {<<>>}
    ELSE LET shorter == SeqsUpTo(S, n - 1)
         IN  shorter \cup {Append(q, x) : q \in {r \in shorter : Len(r) = n - 1}, x \in S}

Range(q) == {q[i] : i \in DOMAIN q}

\* the sequences up to length n that hold no entry of S twice
RECURSIVE DistinctSeqsUpTo(_, _)
DistinctSeqsUpTo(S, n) ==
    IF n = 0 THEN {<<>>}
    ELSE LET shorter == DistinctSeqsUpTo(S, n - 1)
         IN  shorter \cup UNION {{Append(q, x) : x \in S \ Range(q)}
                                    : q \in {r \in shorter : Len(r) = n - 1}}

Listing(fa, ad, price, beds, baths, lat, lon, sqft) ==
    [isdict |-> TRUE, formattedAddress |-> fa, address |-> ad, price |-> price,
     bedrooms |-> beds, bathrooms |-> baths, latitude |-> lat, longitude |-> lon,
     squareFootage |-> sqft]

\* an entry of the payload that is not a dict (a string, a number, null)
NonDict ==
    [isdict |-> FALSE, formattedAddress |-> None, address |-> None, price |-> None,
     bedrooms |-> None, bathrooms |-> None, latitude |-> None, longitude |-> None,
     squareFootage |-> None]

SubjectLat == 3027
SubjectLng == -9774
Lng == Num(SubjectLng)

\* A and B are the 1.4 mi / $2450 / 2br / 2ba / 1025 sqft and
\* 2.1 mi / $2200 / 3br / 2ba / 1100 sqft listings of the end-to-end fixture
ListingA == Listing(Str(<<"a">>), None, Num(2450), Num(2), Num(4), Num(3029), Lng, Num(1025))
ListingB == Listing(Str(<<"b">>), None, Num(2200), Num(3), Num(4), Num(3030), Lng, Num(1100))
\* same key as A
ListingC == Listing(Str(<<"c">>), Str(<<"x">>), Num(2450), Num(2), Num(4), Num(3029), Lng, Num(1025))
\* same distance and price as A, no square footage, plain address field only
ListingD == Listing(None, Str(<<"d">>), Num(2450), Num(3), Num(3), Num(3029), Lng, None)
\* same distance and price as A, larger
ListingE == Listing(Str(<<"e">>), None, Num(2450), Num(2), Num(4), Num(3029), Lng, Num(1200))
\* same distance as A, cheaper, far above the bed/bath target
ListingF == Listing(Str(<<"f">>), None, Num(2300), Num(5), Num(6), Num(3029), Lng, None)

\* at the subject's own coordinates
ListingG == Listing(Str(<<"g">>), None, Num(2600), Num(4), Num(4), Num(SubjectLat), Lng, Num(1500))

WellFormed == {ListingA, ListingB, ListingC, ListingD, ListingE, ListingF, ListingG}

\* the address of A in another case, nearer and cheaper than A
ListingA2 == Listing(Str(<<"A">>), None, Num(2000), Num(2), Num(4), Num(3028), Lng, Num(900))
NoPrice == [ListingB EXCEPT !.price = None]
NoAddress == [ListingB EXCEPT !.formattedAddress = None]
NoLatitude == [ListingB EXCEPT !.latitude = None]
NoLongitude == [ListingB EXCEPT !.longitude = None]
\* on the equator
ZeroLatitude == [ListingB EXCEPT !.latitude = Num(0)]
OneBedroom == [ListingB EXCEPT !.bedrooms = Num(1)]
OneBathroom == [ListingB EXCEPT !.bathrooms = Num(2)]
\* "price": "x" and "price": "9"
TextPrice == [ListingB EXCEPT !.price = Str(<<"x">>)]
DigitPrice == [ListingB EXCEPT !.price = Str(<<"9">>)]

Mixed == {ListingA, ListingB, ListingA2, NoPrice, NoAddress, NoLatitude, NoLongitude,
          ZeroLatitude, OneBedroom, OneBathroom, TextPrice, DigitPrice, NonDict}

Payloads ==
    {[kind |-> "list", items |-> q] : q \in DistinctSeqsUpTo(WellFormed, MaxListings)}
    \cup {[kind |-> "list", items |-> q] : q \in SeqsUpTo(Mixed, MaxMixed)}
    \cup {[kind |-> "dict", items |-> q] : q \in {<<>>, <<NonDict>>}}
    \cup {NoPayload}

\* 1br / 1ba, 2br / 1.5ba and 3br / 2ba around the subject
Arguments ==
    {[latitude |-> SubjectLat, longitude |-> SubjectLng, bedrooms |-> b[1], bathrooms |-> b[2]]
        : b \in {<<1, 2>>, <<2, 3>>, <<3, 4>>}}

NoArguments == [latitude |-> 0, longitude |-> 0, bedrooms |-> 0, bathrooms |-> 0]
NoResponse == [kind |-> "none", status |-> 0, payload |-> NoPayload]
NoResult == [raised |-> FALSE, comps |-> <<>>]

ErrorStatuses == {404, 429, 500}

----------------------------------------------------------------------------
(* get_rental_comps as a state machine: the call runs to its await of       *)
(* client.get, and from the provider's answer to its return                 *)

RentalInit ==
    /\ pc = "idle"
    /\ args = NoArguments
    /\ requests = 0
    /\ outstanding = 0
    /\ response = NoResponse
    /\ result = NoResult

\* get_rental_comps is called and awaits client.get
CallGetRentalComps(a) ==
    /\ pc \in {"idle", "returned"}
    /\ pc' = "awaiting"
    /\ args' = a
    /\ requests' = 1
    /\ outstanding' = 1
    /\ response' = NoResponse
    /\ result' = NoResult
    /\ UNCHANGED <<geoVars, reqVars>>

\* faulty variant: a timeout is answered with a second request
Complete_RetryTimeout(resp) ==
    /\ pc = "awaiting"
    /\ IF resp.kind = "timeout" /\ requests < 2
       THEN /\ pc' = "awaiting"
            /\ requests' = requests + 1
            /\ outstanding' = 1
            /\ UNCHANGED <<response, result>>
       ELSE /\ pc' = "returned"
            /\ response' = resp
            /\ result' = Outcome(resp, args)
            /\ requests' = requests
            /\ outstanding' = 0
    /\ UNCHANGED args
    /\ UNCHANGED <<geoVars, reqVars>>

\* the provider's answer arrives and the call runs to its return: the with
\* block closes the client, and no handler issues another request
Complete(resp) ==
    /\ pc = "awaiting"
    /\ pc' = "returned"
    /\ response' = resp
    /\ result' = Outcome(resp, args)
    /\ requests' = requests
    /\ outstanding' = 0
    /\ UNCHANGED args
    /\ UNCHANGED <<geoVars, reqVars>>

ProviderTimesOut == Complete([kind |-> "timeout", status |-> 0, payload |-> NoPayload])

ProviderUnreachable == Complete([kind |-> "transport", status |-> 0, payload |-> NoPayload])

ProviderStatusError ==
    /\ pc = "awaiting"
    /\ \E st \in ErrorStatuses : Complete([kind |-> "status", status |-> st, payload |-> NoPayload])

ProviderBodyNotJson == Complete([kind |-> "badjson", status |-> 200, payload |-> NoPayload])

ProviderAnswers ==
    /\ pc = "awaiting"
    /\ \E p \in Payloads : Complete([kind |-> "status", status |-> 200, payload |-> p])

----------------------------------------------------------------------------
(* Location Resolver: GeocodingService.geocode_address *)

\* float(v) of a coordinate in degrees, in hundredths of a degree
FloatOf(v) ==
    CASE v.t = "num" -> [ok |-> TRUE, n |-> v.n]
      [] v.t = "str" ->
            IF v.s # <<>> /\ \A i \in DOMAIN v.s : IsDigit(v.s[i])
            THEN [ok |-> TRUE, n |-> 100 * ParseDigits(v.s)]
            ELSE [ok |-> FALSE, n |-> 0]
      [] v.t = "null" -> [ok |-> FALSE, n |-> 0]

Failure(reason) == [raised |-> FALSE, latitude |-> None, longitude |-> None,
                    third |-> Str(reason)]

\* faulty variant: whitespace is not stripped
AddressEmpty_NoStrip(address) == address = <<>>

\* not address or not address.strip()
AddressEmpty(address) == address = <<>> \/ Strip(address) = <<>>

\* The body of a 200 answer: data is a dict or not; results counts the
\* entries of data["results"] (0 also when the key is missing or null);
\* geometry of the first result is a dict, missing, or null; lat, lng and
\* formatted are what the .get calls read.
NoData == [isdict |-> FALSE, results |-> 0, geometry |-> "missing",
           lat |-> None, lng |-> None, formatted |-> None]

\* from data = response.json() to the return inside the with block; "exc"
\* is an exception left to the handlers
ReadResult(data) ==
    IF ~data.isdict THEN [exc |-> TRUE, ret |-> Failure(<<>>)]
    ELSE IF data.results = 0
    THEN [exc |-> FALSE, ret |-> Failure(<<"Address not found or invalid">>)]
    ELSE IF data.geometry = "null" THEN [exc |-> TRUE, ret |-> Failure(<<>>)]
    ELSE LET latitude == IF data.geometry = "dict" THEN data.lat ELSE None
             longitude == IF data.geometry = "dict" THEN data.lng ELSE None
             formatted_address == data.formatted
         IN  IF latitude.t = "null" \/ longitude.t = "null"
             THEN [exc |-> FALSE,
                   ret |-> Failure(<<"Could not extract coordinates from address">>)]
             ELSE IF ~FloatOf(latitude).ok \/ ~FloatOf(longitude).ok
             THEN [exc |-> TRUE, ret |-> Failure(<<>>)]
             ELSE [exc |-> FALSE,
                   ret |-> [raised |-> FALSE,
                            latitude |-> Num(FloatOf(latitude).n),
                            longitude |-> Num(FloatOf(longitude).n),
                            third |-> formatted_address]]

\* what geocode_address returns once the geocoding service has answered
GeocodeOutcome(resp) ==
    CASE resp.kind = "timeout" -> Failure(<<"Geocoding service timeout">>)
      [] resp.kind = "transport" -> Failure(<<"Geocoding service unavailable">>)
      [] resp.kind = "status" /\ resp.status >= 400 ->
            IF resp.status = 429
            THEN Failure(<<"Rate limited by geocoding service">>)
            ELSE Failure(<<"Geocoding service error: ", ToString(resp.status)>>)
      [] resp.kind = "badjson" -> Failure(<<"Geocoding service unavailable">>)
      [] OTHER ->
            LET r == ReadResult(resp.data)
            IN  IF r.exc THEN Failure(<<"Geocoding service unavailable">>)
                ELSE r.ret

GeoAddresses == SeqsUpTo({" ", "a"}, MaxAddrLen)

GeoData ==
    {NoData, [NoData EXCEPT !.isdict = TRUE]}
    \cup {[isdict |-> TRUE, results |-> 1, geometry |-> g, lat |-> la, lng |-> lo,
           formatted |-> f] :
            g \in {"dict", "missing", "null"},
            la \in {None, Num(0), Num(3027), Str(<<"x">>), Str(<<"3", "0">>)},
            lo \in {None, Num(-9774)},
            f \in {None, Str(<<>>), Str(<<"a">>)}}

NoGeoResponse == [kind |-> "none", status |-> 0, data |-> NoData]
NoGeoResult == Failure(<<>>)

GeoInit ==
    /\ gpc = "idle"
    /\ gaddress = <<>>
    /\ grequests = 0
    /\ gresponse = NoGeoResponse
    /\ gresult = NoGeoResult

\* geocode_address is called: an empty address returns at once, any other
\* address awaits client.get
CallGeocodeAddress(address) ==
    /\ gpc \in {"idle", "returned"}
    /\ gaddress' = address
    /\ gresponse' = NoGeoResponse
    /\ IF AddressEmpty(address)
       THEN /\ gpc' = "returned"
            /\ grequests' = 0
            /\ gresult' = Failure(<<"Address cannot be empty">>)
       ELSE /\ gpc' = "awaiting"
            /\ grequests' = 1
            /\ gresult' = NoGeoResult
    /\ UNCHANGED <<rentalVars, reqVars>>

\* the geocoding service's answer arrives and the call runs to its return
GeoComplete(resp) ==
    /\ gpc = "awaiting"
    /\ gpc' = "returned"
    /\ gresponse' = resp
    /\ gresult' = GeocodeOutcome(resp)
    /\ UNCHANGED <<gaddress, grequests>>
    /\ UNCHANGED <<rentalVars, reqVars>>

GeocoderTimesOut == GeoComplete([kind |-> "timeout", status |-> 0, data |-> NoData])

GeocoderUnreachable == GeoComplete([kind |-> "transport", status |-> 0, data |-> NoData])

GeocoderStatusError ==
    /\ gpc = "awaiting"
    /\ \E st \in ErrorStatuses : GeoComplete([kind |-> "status", status |-> st, data |-> NoData])

GeocoderBodyNotJson == GeoComplete([kind |-> "badjson", status |-> 200, data |-> NoData])

GeocoderAnswers ==
    /\ gpc = "awaiting"
    /\ \E d \in GeoData : GeoComplete([kind |-> "status", status |-> 200, data |-> d])

----------------------------------------------------------------------------
(* Request schema: CompsRequest *)

\* radius_miles: float = Field(default=5.0, gt=0), in tenths of a mile
radius_miles_default == 50

\* days_old: str = Field(default="*:270")
days_old_default == <<"*", ":", "2", "7", "0">>

\* the field values of a request that was not created
NoRequest == [address |-> None, latitude |-> None, longitude |-> None,
              radius_miles |-> 0, bedrooms |-> 0, bathrooms |-> 0, days_old |-> <<>>]

NoKwargs == [address |-> None, latitude |-> None, longitude |-> None,
             radius_miles |-> None, bedrooms |-> None, bathrooms |-> None,
             days_old |-> None]

\* address: Optional[str] = None
AddressField(v) == [ok |-> v.t \in {"null", "str"}, v |-> v]

\* latitude / longitude: Optional[float] = None
CoordinateField(v) == [ok |-> v.t \in {"null", "num"}, v |-> v]

\* radius_miles: float = Field(default=5.0, gt=0)
RadiusField(v) ==
    CASE v.t = "null" -> [ok |-> TRUE, v |-> radius_miles_default]
      [] v.t = "num" -> [ok |-> v.n > 0, v |-> v.n]
      [] OTHER -> [ok |-> FALSE, v |-> 0]

\* bedrooms: int = Field(..., ge=0): required, a string of digits converts
BedroomsField(v) ==
    LET i == IntOf(v) IN [ok |-> i.ok /\ i.n >= 0, v |-> i.n]

\* faulty variant: any bathroom count passes
validate_bathrooms_Any(v) == TRUE

\* validate_bathrooms: v % 0.5 != 0 raises ValueError
validate_bathrooms(v) == v % 5 = 0

\* bathrooms: float = Field(..., gt=0), then validate_bathrooms
BathroomsField(v) ==
    IF v.t = "num" THEN [ok |-> v.n > 0 /\ validate_bathrooms(v.n), v |-> v.n]
    ELSE [ok |-> FALSE, v |-> 0]

\* days_old: str = Field(default="*:270")
DaysOldField(v) ==
    CASE v.t = "null" -> [ok |-> TRUE, v |-> days_old_default]
      [] v.t = "str" -> [ok |-> TRUE, v |-> v.s]
      [] OTHER -> [ok |-> FALSE, v |-> <<>>]

\* validate_location_input:
\* not self.address and (self.latitude is None or self.longitude is None) raises
validate_location_input(self) ==
    ~(~Truthy(self.address) /\ (self.latitude = None \/ self.longitude = None))

\* CompsRequest(**kw): every field is validated, and the model validator runs
\* when all fields passed; any failure is a validation error and no object
CompsRequest(kw) ==
    LET address == AddressField(kw.address)
        latitude == CoordinateField(kw.latitude)
        longitude == CoordinateField(kw.longitude)
        radius_miles == RadiusField(kw.radius_miles)
        bedrooms == BedroomsField(kw.bedrooms)
        bathrooms == BathroomsField(kw.bathrooms)
        days_old == DaysOldField(kw.days_old)
        self == [address |-> address.v, latitude |-> latitude.v,
                 longitude |-> longitude.v, radius_miles |-> radius_miles.v,
                 bedrooms |-> bedrooms.v, bathrooms |-> bathrooms.v,
                 days_old |-> days_old.v]
    IN  IF /\ address.ok /\ latitude.ok /\ longitude.ok /\ radius_miles.ok
           /\ bedrooms.ok /\ bathrooms.ok /\ days_old.ok
           /\ validate_location_input(self)
        THEN [ok |-> TRUE, self |-> self]
        ELSE [ok |-> FALSE, self |-> NoRequest]

OptionalNumbers(S) == {None} \cup {Num(n) : n \in S}

Keywords ==
    [address : {None, Num(7), Str(<<>>), Str(<<" ">>), Str(<<"a">>)},
     latitude : OptionalNumbers({0, SubjectLat}),
     longitude : OptionalNumbers({SubjectLng}),
     radius_miles : OptionalNumbers({-10, 0, 25}),
     bedrooms : OptionalNumbers(-1 .. MaxBedrooms) \cup {Str(<<"x">>), Str(<<"2">>)},
     bathrooms : OptionalNumbers(-5 .. MaxBathTenths),
     days_old : {None, Str(<<"*", ":", "3", "0">>)}]

ReqInit ==
    /\ kwargs = NoKwargs
    /\ made = "none"
    /\ request = NoRequest

\* CompsRequest(**kw) is called
Construct(kw) ==
    /\ made = "none"
    /\ kwargs' = kw
    /\ made' = IF CompsRequest(kw).ok THEN "created" ELSE "error"
    /\ request' = CompsRequest(kw).self
    /\ UNCHANGED <<rentalVars, geoVars>>

----------------------------------------------------------------------------
(* Specifications *)

Init == RentalInit /\ GeoInit /\ ReqInit

Next ==
    \/ \E a \in Arguments : CallGetRentalComps(a)
    \/ ProviderTimesOut
    \/ ProviderUnreachable
    \/ ProviderStatusError
    \/ ProviderBodyNotJson
    \/ ProviderAnswers

Spec == Init /\ [][Next]_vars

NextGeo ==
    \/ \E address \in GeoAddresses : CallGeocodeAddress(address)
    \/ GeocoderTimesOut
    \/ GeocoderUnreachable
    \/ GeocoderStatusError
    \/ GeocoderBodyNotJson
    \/ GeocoderAnswers

SpecGeo == Init /\ [][NextGeo]_vars

NextReq == made = "none" /\ \E kw \in Keywords : Construct(kw)

SpecReq == Init /\ [][NextReq]_vars

----------------------------------------------------------------------------
(* Vocabulary of the properties of get_rental_comps *)

\* the call has returned after a 200 answer whose body is a list
ListAnswered ==
    /\ pc = "returned"
    /\ response.kind = "status"
    /\ response.status = 200
    /\ response.payload.kind = "list"

Items == response.payload.items

\* ... and every entry of the list is a record
RecordsAnswered == ListAnswered /\ \A i \in DOMAIN Items : Items[i].isdict

\* what _process_listing makes of each entry of the answer, by position
RECURSIVE ProcessedUpTo(_)
ProcessedUpTo(n) ==
    IF n = 0 THEN <<>>
    ELSE Append(ProcessedUpTo(n - 1),
                _process_listing(Items[n], args.latitude, args.longitude,
                                 args.bedrooms, args.bathrooms))

Processed == ProcessedUpTo(Len(Items))

SameAddress(c, d) == Lower(c.address) = Lower(d.address)

\* positions in P of the accepted listings that carry the address of comp c
Occurrences(P, c) == {i \in DOMAIN P : P[i].tag = "comp" /\ SameAddress(P[i].comp, c)}

FirstOccurrence(P, c) ==
    LET occ == Occurrences(P, c) IN CHOOSE i \in occ : \A j \in occ : i <= j

\* positions of the accepted listings that are the first with their address
Kept(P) ==
    {i \in DOMAIN P :
        /\ P[i].tag = "comp"
        /\ \A j \in 1 .. (i - 1) : ~(P[j].tag = "comp" /\ SameAddress(P[j].comp, P[i].comp))}

Returned(c) == \E k \in DOMAIN result.comps : result.comps[k] = c

\* (distance_miles, price, -square_footage), an absent square footage as 0
RankKey(c) ==
    <<c.distance_miles, c.price,
      IF c.square_footage.t = "num" THEN -c.square_footage.n ELSE 0>>

Before(k1, k2) ==
    \/ k1[1] < k2[1]
    \/ k1[1] = k2[1] /\ k1[2] < k2[2]
    \/ k1[1] = k2[1] /\ k1[2] = k2[2] /\ k1[3] < k2[3]

----------------------------------------------------------------------------
\* C1: the returned comps are in ascending order of (distance_miles, price,
\* -square_footage with an absent square footage as 0), and two returned
\* comps with equal keys stand in the order their raw listings had in the
\* provider's sequence.
C1_SortedStable ==
    ListAnswered =>
        LET P == Processed
            R == result.comps
        IN  \A i, j \in DOMAIN R :
                i < j =>
                    /\ ~Before(RankKey(R[j]), RankKey(R[i]))
                    /\ RankKey(R[i]) = RankKey(R[j]) =>
                           FirstOccurrence(P, R[i]) < FirstOccurrence(P, R[j])

\* a returned list of three or more in which the sort moved a comp ahead of
\* one the provider sent earlier, and which holds two comps of equal key
C1_Witness ==
    /\ ListAnswered
    /\ Len(result.comps) >= 3
    /\ LET P == Processed
           R == result.comps
       IN  /\ \E i, j \in DOMAIN R :
                 i < j /\ FirstOccurrence(P, R[i]) > FirstOccurrence(P, R[j])
           /\ \E i, j \in DOMAIN R : i < j /\ RankKey(R[i]) = RankKey(R[j])

\* C2: no two returned comps have addresses that are equal ignoring case;
\* each returned comp is the comp of the first accepted listing with its
\* address; a later duplicate raises nothing, and short of the result cap
\* every accepted address is returned.
C2_DedupFirstWins ==
    ListAnswered =>
        LET P == Processed
            R == result.comps
        IN  /\ ~result.raised
            /\ \A i, j \in DOMAIN R : i # j => ~SameAddress(R[i], R[j])
            /\ \A k \in DOMAIN R :
                  /\ Occurrences(P, R[k]) # {}
                  /\ R[k] = P[FirstOccurrence(P, R[k])].comp
            /\ RecordsAnswered /\ Len(R) < max_results =>
                  \A i \in DOMAIN P :
                      P[i].tag = "comp" => \E k \in DOMAIN R : SameAddress(R[k], P[i].comp)

\* two accepted listings share an address up to case, differ as comps, and
\* the address is returned
C2_Witness ==
    /\ ListAnswered
    /\ LET P == Processed
       IN  \E i, j \in DOMAIN P :
              /\ i < j
              /\ P[i].tag = "comp"
              /\ P[j].tag = "comp"
              /\ SameAddress(P[i].comp, P[j].comp)
              /\ P[i].comp.address # P[j].comp.address
              /\ Returned(P[i].comp)

\* C3: for a list of raw listings the call returns at most max_results (5)
\* comps, exactly min(max_results, accepted listings after deduplication),
\* none of them ranked behind a deduplicated comp that was left out; an
\* empty list yields an empty list.
C3_Truncated ==
    RecordsAnswered =>
        LET P == Processed
            R == result.comps
            kept == Kept(P)
            n == Cardinality(kept)
        IN  /\ ~result.raised
            /\ Len(R) <= max_results
            /\ Len(R) = IF n < max_results THEN n ELSE max_results
            /\ \A i \in kept :
                  \/ Returned(P[i].comp)
                  \/ \A k \in DOMAIN R : ~Before(RankKey(P[i].comp), RankKey(R[k]))
            /\ Items = <<>> => R = <<>>

\* more accepted addresses than the cap, and the cap returned
C3_Witness ==
    /\ RecordsAnswered
    /\ Cardinality(Kept(Processed)) > max_results
    /\ Len(result.comps) = max_results


\* the target is met, and price, address and coordinates are there: numbers
\* for price and coordinates, the coordinates in range
Acceptable(listing) ==
    /\ listing.price.t = "num"
    /\ ListingAddress(listing).t = "str" /\ ListingAddress(listing).s # <<>>
    /\ listing.latitude.t = "num"
    /\ listing.latitude.n >= -9000 /\ listing.latitude.n <= 9000
    /\ listing.longitude.t = "num"
    /\ listing.longitude.n >= -18000 /\ listing.longitude.n <= 18000
    /\ listing.bedrooms.t = "num" /\ listing.bedrooms.n >= args.bedrooms
    /\ listing.bathrooms.t = "num" /\ listing.bathrooms.n >= args.bathrooms

UnderTarget(listing) ==
    \/ listing.bedrooms.t = "num" /\ listing.bedrooms.n < args.bedrooms
    \/ listing.bathrooms.t = "num" /\ listing.bathrooms.n < args.bathrooms

\* C4: _process_listing returns None for a listing under the bedroom or the
\* bathroom target, and a comp for every listing that meets both targets and
\* has a price, an address and coordinates anywhere in [-90, 90] x
\* [-180, 180].
C4_AcceptsEveryCoordinate ==
    ListAnswered =>
        LET P == Processed
        IN  \A i \in DOMAIN Items :
                Items[i].isdict =>
                    /\ UnderTarget(Items[i]) => P[i].tag = "none"
                    /\ Acceptable(Items[i]) => P[i].tag = "comp"

MissingCritical(listing) ==
    \/ listing.price = None
    \/ listing.formattedAddress = None /\ listing.address = None
    \/ listing.latitude = None
    \/ listing.longitude = None

\* C5: _process_listing returns None, and no comp at all, for a listing whose
\* price, address (both fields), latitude or longitude is missing or null;
\* every returned comp has the non-empty address and the price of its
\* listing and the distance from the subject to that listing's coordinates.
C5_MissingRejected ==
    ListAnswered =>
        LET P == Processed
            R == result.comps
        IN  /\ \A i \in DOMAIN Items :
                  Items[i].isdict /\ MissingCritical(Items[i]) => P[i] = Rejected
            /\ \A k \in DOMAIN R :
                  LET l == Items[FirstOccurrence(P, R[k])]
                  IN  /\ ~MissingCritical(l)
                      /\ R[k].address # <<>>
                      /\ R[k].address = Or(l.formattedAddress, l.address).s
                      /\ IntOf(l.price).ok
                      /\ R[k].price = IntOf(l.price).n
                      /\ l.latitude.t = "num"
                      /\ l.longitude.t = "num"
                      /\ R[k].distance_miles =
                            haversine_distance(args.latitude, args.longitude,
                                               l.latitude.n, l.longitude.n)

\* an answer with an entry that misses a critical field, and a comp returned
C5_Witness ==
    /\ ListAnswered
    /\ \E i \in DOMAIN Items : Items[i].isdict /\ MissingCritical(Items[i])
    /\ result.comps # <<>>

\* the entries of the answer that _process_listing accepts
RECURSIVE AcceptedUpTo(_, _)
AcceptedUpTo(P, n) ==
    IF n = 0 THEN <<>>
    ELSE IF P[n].tag = "comp" THEN Append(AcceptedUpTo(P, n - 1), Items[n])
    ELSE AcceptedUpTo(P, n - 1)

\* C6: the call returns what it returns for the same answer without the
\* rejected entries (missing fields, non-numeric values, entries that are not
\* records), and does not fail.
C6_RejectionIsLocal ==
    ListAnswered =>
        LET P == Processed
            accepted == AcceptedUpTo(P, Len(Items))
        IN  /\ ~result.raised
            /\ result.comps =
                  Outcome([response EXCEPT !.payload.items = accepted], args).comps

ProviderFailed ==
    \/ response.kind \in {"timeout", "transport", "badjson"}
    \/ response.kind = "status" /\ response.status >= 400
    \/ response.payload.kind # "list"
    \/ \E i \in DOMAIN Items : ~Items[i].isdict

EmptyAnswer ==
    [kind |-> "status", status |-> 200, payload |-> [kind |-> "list", items |-> <<>>]]

\* C7: get_rental_comps raises nothing; after a timeout, a 429, another
\* error status, a transport exception or a payload that is not a list of
\* records it returns the empty list, as for an answer without listings.
C7_NeverRaises ==
    pc = "returned" =>
        /\ ~result.raised
        /\ ProviderFailed =>
              /\ result.comps = <<>>
              /\ result = Outcome(EmptyAnswer, args)

\* the answer was a JSON object instead of a list
C7_Witness ==
    /\ pc = "returned"
    /\ response.kind = "status"
    /\ response.status = 200
    /\ response.payload.kind = "dict"
    /\ response.payload.items # <<>>
    /\ result.comps = <<>>

\* C10: a call issues one request to the provider and no second one after a
\* timeout, a rate limit, an error status or a malformed payload; none is
\* outstanding once the call has returned.
C10_OneRequest ==
    /\ requests <= 1
    /\ pc = "awaiting" => requests = 1
    /\ pc = "returned" => requests = 1 /\ outstanding = 0

\* returned after the provider timed out
C10_Witness ==
    /\ pc = "returned"
    /\ response.kind = "timeout"
    /\ requests = 1
    /\ outstanding = 0

----------------------------------------------------------------------------
(* Properties of geocode_address *)

Blank(address) == \A i \in DOMAIN address : address[i] \in {" ", "\t"}

\* C8: a call with an empty or whitespace-only address returns
\* (None, None, "Address cannot be empty") and issues no request.
C8_EmptyAddressNoRequest ==
    gpc # "idle" /\ Blank(gaddress) =>
        /\ gpc = "returned"
        /\ grequests = 0
        /\ gresponse = NoGeoResponse
        /\ gresult = [raised |-> FALSE, latitude |-> None, longitude |-> None,
                      third |-> Str(<<"Address cannot be empty">>)]

\* returned for an address of spaces only
C8_Witness ==
    /\ gpc = "returned"
    /\ gaddress # <<>>
    /\ Blank(gaddress)
    /\ grequests = 0

GeoSuccess(r) == r.latitude.t = "num" /\ r.longitude.t = "num" /\ r.third.t # "null"

GeoFailure(r) ==
    /\ r.latitude = None
    /\ r.longitude = None
    /\ r.third.t = "str"
    /\ r.third.s # <<>>

\* C9: every return of geocode_address is a success with latitude, longitude
\* and formatted address all present, or a failure with both coordinates None
\* and a non-empty reason; "not found" and "rate limited" are different
\* reasons; nothing is raised.
C9_TypedOutcome ==
    /\ gpc = "returned" =>
          /\ ~gresult.raised
          /\ GeoSuccess(gresult) \/ GeoFailure(gresult)
    /\ GeocodeOutcome([kind |-> "status", status |-> 429, data |-> NoData])
          # GeocodeOutcome([kind |-> "status", status |-> 200,
                            data |-> [NoData EXCEPT !.isdict = TRUE]])

----------------------------------------------------------------------------
(* Properties of CompsRequest *)

\* what must make the construction fail
Invalid(kw) ==
    \/ /\ kw.address = None \/ kw.address = Str(<<>>)
       /\ kw.latitude = None \/ kw.longitude = None
    \/ kw.bathrooms.t = "num" /\ kw.bathrooms.n % 5 # 0
    \/ kw.bathrooms.t = "num" /\ kw.bathrooms.n <= 0
    \/ kw.bedrooms = None
    \/ kw.bedrooms.t = "num" /\ kw.bedrooms.n < 0
    \/ kw.radius_miles.t = "num" /\ kw.radius_miles.n <= 0

\* C11: constructing a CompsRequest fails, and no object exists, when the
\* address is absent or empty and a coordinate is absent, or bathrooms is not
\* a multiple of 0.5 or is <= 0, or bedrooms is negative or absent, or
\* radius_miles <= 0; every request that exists has a non-empty address or
\* both coordinates, bedrooms >= 0, bathrooms a positive multiple of 0.5 and
\* radius_miles > 0, with radius_miles 5.0 and days_old "*:270" when not given.
C11_ValidRequestsOnly ==
    /\ made # "none" /\ Invalid(kwargs) => made = "error" /\ request = NoRequest
    /\ made = "error" => request = NoRequest
    /\ made = "created" =>
          /\ \/ request.address.t = "str" /\ request.address.s # <<>>
             \/ request.latitude.t = "num" /\ request.longitude.t = "num"
          /\ request.bedrooms >= 0
          /\ request.bathrooms > 0
          /\ request.bathrooms % 5 = 0
          /\ request.radius_miles > 0
          /\ kwargs.radius_miles = None => request.radius_miles = 50
          /\ kwargs.days_old = None => request.days_old = <<"*", ":", "2", "7", "0">>

\* refused for 1.2 bathrooms alone, every other argument being acceptable
C11_Witness ==
    /\ made = "error"
    /\ kwargs.bathrooms = Num(12)
    /\ CompsRequest([kwargs EXCEPT !.bathrooms = Num(15)]).ok

====
